---- MODULE Spec2Model ----
(* A model of go-micro's server package: the rpcStream of rpc_stream.go      *)
(* (Send, Recv, Error, Close over one codec, guarded by one sync.RWMutex)    *)
(* and the package-level default server of server.go.                        *)
EXTENDS Integers, Sequences, FiniteSets, TLC

(* ------------------------------ bounds ---------------------------------- *)

\* concurrent callers (goroutines) of one stream
NProcs == 2
\* operations started on the stream in one behaviour
MaxOps == 3
\* request frames the peer has put on the connection
NFrames == 2
\* package-level calls on the default server in one behaviour
MaxCalls == 4

Procs == 1..NProcs

(* ------------------------------ values ---------------------------------- *)

\* the nil error
Nil == "nil"
Services == {"Greeter"}
Methods == {"Hello", "Ping"}

\* the context the stream was built with
TheContext == "ctx"

\* one unit of the connection's input: the header or the body of frame f
Unit(f, part) == <<f, part>>
NoUnit == <<>>

VARIABLES
    \* rpcStream fields
    seq, closed, err, request, context,
    \* the embedded sync.RWMutex: the holders of the write side, the holders of the read side
    writer, readers,
    \* each caller: where it is, the operation's locals, the codec calls the
    \* operation has made, what its last operation returned
    pc, lseq, lerr, calls, ret, after,
    \* the codec: the next unread unit of the input, the responses written, Close calls
    pos, phase, written, codecCloses,
    \* bookkeeping: operations started, Close calls started, a Recv has
    \* returned an error
    nOps, closeCalls, recvFailed

streamVars == <<seq, closed, err, request, context, writer, readers,
                pc, lseq, lerr, calls, ret, after,
                pos, phase, written, codecCloses, nOps, closeCalls, recvFailed>>

VARIABLES
    \* every server newRpcServer has built, in order; a server is the options
    \* applied to it so far
    servers,
    \* DefaultServer: the index in servers of the default instance, or NilServer
    defaultServer,
    \* what each package-level Init found and did
    initLog,
    \* package-level calls made
    nCalls,
    \* Run: where it is, what it returned, the calls it has made on the default
    \* server (and the signal it received), in order, each with the server it
    \* was made on
    runPc, runRet, lifecycle,
    \* the servers that are started, the servers that are registered
    started, registered

runVars == <<runPc, runRet, lifecycle, started, registered>>

serverVars == <<servers, defaultServer, initLog, nCalls, runVars>>

vars == <<streamVars, serverVars>>

(* ------------------------------- codec ---------------------------------- *)
(* The codec is the stream's collaborator: ReadRequestHeader, ReadRequestBody, *)
(* WriteResponse, Close. Its input is the peer's frames, a header unit and a   *)
(* body unit each, read in order. A read consumes the next unit whether it     *)
(* succeeds or fails: a failed header read leaves that frame's body pending,   *)
(* a failed body read leaves nothing of the frame behind. At the end of the    *)
(* input every read returns EOF. Any call may fail.                            *)

\* the unit the next read of the connection consumes
NextUnit ==
    IF pos > NFrames THEN NoUnit ELSE Unit(pos, phase)

\* the position after one unit has been consumed
PosAfter ==
    IF pos > NFrames THEN pos ELSE IF phase = "hdr" THEN pos ELSE pos + 1

PhaseAfter ==
    IF pos > NFrames THEN phase ELSE IF phase = "hdr" THEN "body" ELSE "hdr"

\* errors a read of the connection can return
ReadErrors(failure) ==
    IF pos > NFrames THEN {"EOF"} ELSE {Nil, failure}

\* ReadRequestHeader: consumes the next unit as a header
HeaderErrors == ReadErrors("ErrHeader")

\* ReadRequestBody: consumes the next unit as a body (a nil target discards it)
BodyErrors == ReadErrors("ErrBody")

\* WriteResponse
WriteErrors == {Nil, "ErrWrite"}

\* Close
CloseErrors == {Nil, "ErrClose"}

Call(fn, target, unit, e) ==
    [fn |-> fn, target |-> target, unit |-> unit, err |-> e]

(* ------------------------------ the lock -------------------------------- *)

\* r.Lock() can return: nobody holds either side
CanLock == writer = {} /\ readers = {}

\* r.RLock() can return: nobody holds the write side (sync.RWMutex also keeps
\* new readers out while a Lock() is waiting; letting them in only adds
\* interleavings)
CanRLock == writer = {}

(* ------------------------------ rpcStream ------------------------------- *)

Return(p, op, e, val) ==
    /\ ret' = [ret EXCEPT ![p] = [op |-> op, err |-> e, val |-> val]]
    /\ pc' = [pc EXCEPT ![p] = "idle"]

Start(p, op, at) ==
    /\ pc[p] = "idle"
    /\ nOps < MaxOps
    /\ nOps' = nOps + 1
    /\ pc' = [pc EXCEPT ![p] = at]
    /\ calls' = [calls EXCEPT ![p] = <<>>]
    /\ ret' = [ret EXCEPT ![p] = [op |-> op, err |-> Nil, val |-> {}]]

\* Context()
Context(p) ==
    /\ pc[p] = "idle"
    /\ nOps < MaxOps
    /\ nOps' = nOps + 1
    /\ calls' = [calls EXCEPT ![p] = <<>>]
    /\ ret' = [ret EXCEPT ![p] = [op |-> "Context", err |-> Nil, val |-> {context}]]
    /\ UNCHANGED <<seq, closed, err, request, context, writer, readers, pc, lseq,
                   lerr, after, pos, phase, written, codecCloses, closeCalls, recvFailed, serverVars>>

\* Request()
Request(p) ==
    /\ pc[p] = "idle"
    /\ nOps < MaxOps
    /\ nOps' = nOps + 1
    /\ calls' = [calls EXCEPT ![p] = <<>>]
    /\ ret' = [ret EXCEPT ![p] = [op |-> "Request", err |-> Nil, val |-> {request}]]
    /\ UNCHANGED <<seq, closed, err, request, context, writer, readers, pc, lseq,
                   lerr, after, pos, phase, written, codecCloses, closeCalls, recvFailed, serverVars>>

\* Send is called and reaches r.Lock()
SendCall(p) ==
    /\ Start(p, "Send", "SendLock")
    /\ UNCHANGED <<seq, closed, err, request, context, writer, readers, lseq,
                   lerr, after, pos, phase, written, codecCloses, closeCalls, recvFailed, serverVars>>

\* SendAcquire without r.Lock(): Send goes on whoever holds the lock
SendAcquire_NoLock(p) ==
    /\ pc[p] = "SendLock"
    /\ writer' = writer \cup {p}
    /\ pc' = [pc EXCEPT ![p] = "SendAssign"]
    /\ UNCHANGED <<seq, closed, err, request, context, readers, lseq, lerr, calls,
                   ret, after, pos, phase, written, codecCloses, nOps, closeCalls, recvFailed, serverVars>>

\* r.Lock() returns
SendAcquire(p) ==
    /\ pc[p] = "SendLock"
    /\ CanLock
    /\ writer' = writer \cup {p}
    /\ pc' = [pc EXCEPT ![p] = "SendAssign"]
    /\ UNCHANGED <<seq, closed, err, request, context, readers, lseq, lerr, calls,
                   ret, after, pos, phase, written, codecCloses, nOps, closeCalls, recvFailed, serverVars>>

\* SendAssign without r.seq++
SendAssign_NoIncrement(p) ==
    /\ pc[p] = "SendAssign"
    /\ lseq' = [lseq EXCEPT ![p] = seq]
    /\ pc' = [pc EXCEPT ![p] = "SendWrite"]
    /\ UNCHANGED <<seq, closed, err, request, context, writer, readers, lerr, calls,
                   ret, after, pos, phase, written, codecCloses, nOps, closeCalls, recvFailed, serverVars>>

\* SendAssign that fails fast on a closed stream, without the codec
SendAssign_FailFast(p) ==
    /\ pc[p] = "SendAssign"
    /\ IF closed
       THEN /\ Return(p, "Send", "ErrClosed", {})
            /\ writer' = writer \ {p}
            /\ UNCHANGED <<seq, lseq>>
       ELSE /\ lseq' = [lseq EXCEPT ![p] = seq]
            /\ seq' = seq + 1
            /\ pc' = [pc EXCEPT ![p] = "SendWrite"]
            /\ UNCHANGED <<writer, ret>>
    /\ UNCHANGED <<closed, err, request, context, readers, lerr, calls,
                   after, pos, phase, written, codecCloses, nOps, closeCalls, recvFailed, serverVars>>

\* seq := r.seq; r.seq++; the response header is built and WriteResponse is
\* entered (r.seq is a uint64: MaxOps Sends stay far below 2^64)
SendAssign(p) ==
    /\ pc[p] = "SendAssign"
    /\ lseq' = [lseq EXCEPT ![p] = seq]
    /\ seq' = seq + 1
    /\ pc' = [pc EXCEPT ![p] = "SendWrite"]
    /\ UNCHANGED <<closed, err, request, context, writer, readers, lerr, calls,
                   ret, after, pos, phase, written, codecCloses, nOps, closeCalls, recvFailed, serverVars>>

\* Response with ServiceMethod: r.request.Service()
Response_Service(p) ==
    [ServiceMethod |-> request.service, Seq |-> lseq[p]]

\* the response header Send hands to the codec
Response(p) ==
    [ServiceMethod |-> request.method, Seq |-> lseq[p]]

\* SendResult with the write error logged and dropped
SendResult_Swallowed(e) == Nil

\* what Send returns, given what WriteResponse returned
SendResult(e) == e

\* ErrAfterWrite that keeps a write error in r.err
ErrAfterWrite_Stored(e) ==
    IF e # Nil THEN e ELSE err

\* r.err after WriteResponse has returned e: Send logs e and leaves r.err alone
ErrAfterWrite(e) == err

\* SeqAfterWrite that gives the number back when the write has failed
SeqAfterWrite_RollBack(e) ==
    IF e # Nil THEN seq - 1 ELSE seq

\* r.seq after WriteResponse has returned e: the increment stands either way
SeqAfterWrite(e) == seq

\* WriteResponse returns e; the deferred Unlock runs and Send returns
SendWriteReturn(p) ==
    /\ pc[p] = "SendWrite"
    /\ \E e \in WriteErrors :
        /\ written' = Append(written, [hdr |-> Response(p), more |-> FALSE, err |-> e])
        /\ calls' = [calls EXCEPT ![p] = Append(@, Call("WriteResponse", "msg", NoUnit, e))]
        /\ Return(p, "Send", SendResult(e), {})
        /\ err' = ErrAfterWrite(e)
        /\ seq' = SeqAfterWrite(e)
    /\ writer' = writer \ {p}
    /\ UNCHANGED <<closed, request, context, readers, lseq, lerr, after,
                   pos, phase, codecCloses, nOps, closeCalls, recvFailed, serverVars>>

\* Recv is called and reaches r.Lock()
RecvCall(p) ==
    /\ Start(p, "Recv", "RecvLock")
    /\ UNCHANGED <<seq, closed, err, request, context, writer, readers, lseq,
                   lerr, after, pos, phase, written, codecCloses, closeCalls, recvFailed, serverVars>>

\* r.Lock() returns and ReadRequestHeader is entered
RecvAcquire(p) ==
    /\ pc[p] = "RecvLock"
    /\ CanLock
    /\ writer' = writer \cup {p}
    /\ pc' = [pc EXCEPT ![p] = "RecvHeader"]
    /\ UNCHANGED <<seq, closed, err, request, context, readers, lseq, lerr, calls,
                   ret, after, pos, phase, written, codecCloses, nOps, closeCalls, recvFailed, serverVars>>

\* AfterHeader without the error branch: the body is read into msg either way
AfterHeader_ReadsBody(e) == "RecvBody"

\* AfterHeader that takes the discard path whatever the header read returned
AfterHeader_AlwaysDiscard(e) == "RecvDiscard"

\* where Recv goes when ReadRequestHeader has returned e
AfterHeader(e) ==
    IF e # Nil THEN "RecvDiscard" ELSE "RecvBody"

\* ReadRequestHeader returns e
RecvHeaderReturn(p) ==
    /\ pc[p] = "RecvHeader"
    /\ \E e \in HeaderErrors :
        /\ calls' = [calls EXCEPT ![p] = Append(@, Call("ReadRequestHeader", "req", NextUnit, e))]
        /\ lerr' = [lerr EXCEPT ![p] = e]
        /\ pc' = [pc EXCEPT ![p] = AfterHeader(e)]
    /\ pos' = PosAfter
    /\ phase' = PhaseAfter
    /\ UNCHANGED <<seq, closed, err, request, context, writer, readers, lseq,
                   ret, after, written, codecCloses, nOps, closeCalls, recvFailed, serverVars>>

\* what Recv returns on the header-failure path: the header error, whatever
\* the discarding ReadRequestBody(nil) returned
DiscardResult(headerErr, discardErr) == headerErr

\* Discards with the discard left out: Recv returns the header error at once
Discards_Never == FALSE

\* on a header error Recv calls r.codec.ReadRequestBody(nil) before it returns
Discards == TRUE

\* RecvDiscardReturn that returns the header error without r.Unlock()
RecvDiscardReturn_NoUnlock(p) ==
    /\ pc[p] = "RecvDiscard"
    /\ \E e \in BodyErrors :
        /\ calls' = [calls EXCEPT ![p] = Append(@, Call("ReadRequestBody", "nil", NextUnit, e))]
        /\ Return(p, "Recv", lerr[p], {})
        /\ recvFailed' = (recvFailed \/ lerr[p] # Nil)
    /\ pos' = PosAfter
    /\ phase' = PhaseAfter
    /\ UNCHANGED <<seq, closed, err, request, context, writer, readers, lseq, lerr, after,
                   written, codecCloses, nOps, closeCalls, serverVars>>

\* ReadRequestBody(nil) returns; the deferred Unlock runs and Recv returns
RecvDiscardReturn(p) ==
    /\ pc[p] = "RecvDiscard"
    /\ \E e \in (IF Discards THEN BodyErrors ELSE {Nil}) :
        /\ calls' = [calls EXCEPT ![p] =
                IF Discards THEN Append(@, Call("ReadRequestBody", "nil", NextUnit, e)) ELSE @]
        /\ Return(p, "Recv", DiscardResult(lerr[p], e), {})
        /\ recvFailed' = (recvFailed \/ DiscardResult(lerr[p], e) # Nil)
    /\ pos' = IF Discards THEN PosAfter ELSE pos
    /\ phase' = IF Discards THEN PhaseAfter ELSE phase
    /\ writer' = writer \ {p}
    /\ UNCHANGED <<seq, closed, err, request, context, readers, lseq, lerr, after,
                   written, codecCloses, nOps, closeCalls, serverVars>>

\* what Recv returns, given what ReadRequestBody(msg) returned
BodyResult(e) == e

\* ReadRequestBody(msg) returns e; the deferred Unlock runs and Recv returns
RecvBodyReturn(p) ==
    /\ pc[p] = "RecvBody"
    /\ \E e \in BodyErrors :
        /\ calls' = [calls EXCEPT ![p] = Append(@, Call("ReadRequestBody", "msg", NextUnit, e))]
        /\ Return(p, "Recv", BodyResult(e), {})
        /\ recvFailed' = (recvFailed \/ BodyResult(e) # Nil)
    /\ pos' = PosAfter
    /\ phase' = PhaseAfter
    /\ writer' = writer \ {p}
    /\ UNCHANGED <<seq, closed, err, request, context, readers, lseq, lerr, after,
                   written, codecCloses, nOps, closeCalls, serverVars>>

\* Error is called and reaches r.RLock()
ErrorCall(p) ==
    /\ Start(p, "Error", "ErrorRLock")
    /\ after' = [after EXCEPT ![p] = recvFailed]
    /\ UNCHANGED <<seq, closed, err, request, context, writer, readers, lseq,
                   lerr, pos, phase, written, codecCloses, closeCalls, recvFailed, serverVars>>

\* ErrorAcquire without r.RLock(): Error reads r.err whoever holds the lock
ErrorAcquire_NoLock(p) ==
    /\ pc[p] = "ErrorRLock"
    /\ readers' = readers \cup {p}
    /\ pc' = [pc EXCEPT ![p] = "ErrorRead"]
    /\ UNCHANGED <<seq, closed, err, request, context, writer, lseq, lerr, calls,
                   ret, after, pos, phase, written, codecCloses, nOps, closeCalls, recvFailed, serverVars>>

\* r.RLock() returns
ErrorAcquire(p) ==
    /\ pc[p] = "ErrorRLock"
    /\ CanRLock
    /\ readers' = readers \cup {p}
    /\ pc' = [pc EXCEPT ![p] = "ErrorRead"]
    /\ UNCHANGED <<seq, closed, err, request, context, writer, lseq, lerr, calls,
                   ret, after, pos, phase, written, codecCloses, nOps, closeCalls, recvFailed, serverVars>>

\* return r.err; the deferred RUnlock runs
ErrorReturn(p) ==
    /\ pc[p] = "ErrorRead"
    /\ Return(p, "Error", err, {})
    /\ readers' = readers \ {p}
    /\ UNCHANGED <<seq, closed, err, request, context, writer, lseq, lerr, calls,
                   after, pos, phase, written, codecCloses, nOps, closeCalls, recvFailed, serverVars>>

\* Close is called and reaches r.Lock()
CloseCall(p) ==
    /\ Start(p, "Close", "CloseLock")
    /\ closeCalls' = closeCalls + 1
    /\ UNCHANGED <<seq, closed, err, request, context, writer, readers, lseq,
                   lerr, after, pos, phase, written, codecCloses, recvFailed, serverVars>>

\* CloseAcquire that returns nil at once when the stream is already closed
CloseAcquire_Once(p) ==
    /\ pc[p] = "CloseLock"
    /\ CanLock
    /\ IF closed
       THEN /\ Return(p, "Close", Nil, {})
            /\ UNCHANGED <<writer, closed, codecCloses>>
       ELSE /\ writer' = writer \cup {p}
            /\ closed' = TRUE
            /\ codecCloses' = codecCloses + 1
            /\ pc' = [pc EXCEPT ![p] = "CloseCodec"]
            /\ UNCHANGED ret
    /\ UNCHANGED <<seq, err, request, context, readers, lseq, lerr, calls,
                   after, pos, phase, written, nOps, closeCalls, recvFailed, serverVars>>

\* CloseAcquire that also resets the sequence counter
CloseAcquire_ResetsSeq(p) ==
    /\ pc[p] = "CloseLock"
    /\ CanLock
    /\ writer' = writer \cup {p}
    /\ closed' = TRUE
    /\ seq' = 0
    /\ codecCloses' = codecCloses + 1
    /\ pc' = [pc EXCEPT ![p] = "CloseCodec"]
    /\ UNCHANGED <<err, request, context, readers, lseq, lerr, calls,
                   ret, after, pos, phase, written, nOps, closeCalls, recvFailed, serverVars>>

\* r.Lock() returns; r.closed = true; codec.Close is entered
CloseAcquire(p) ==
    /\ pc[p] = "CloseLock"
    /\ CanLock
    /\ writer' = writer \cup {p}
    /\ closed' = TRUE
    /\ codecCloses' = codecCloses + 1
    /\ pc' = [pc EXCEPT ![p] = "CloseCodec"]
    /\ UNCHANGED <<seq, err, request, context, readers, lseq, lerr, calls,
                   ret, after, pos, phase, written, nOps, closeCalls, recvFailed, serverVars>>

\* what Close returns, given what codec.Close returned
CloseResult(e) == e

\* codec.Close returns e; the deferred Unlock runs and Close returns
CloseCodecReturn(p) ==
    /\ pc[p] = "CloseCodec"
    /\ \E e \in CloseErrors :
        /\ calls' = [calls EXCEPT ![p] = Append(@, Call("Close", "", NoUnit, e))]
        /\ Return(p, "Close", CloseResult(e), {})
    /\ writer' = writer \ {p}
    /\ UNCHANGED <<seq, closed, err, request, context, readers, lseq, lerr, after,
                   pos, phase, written, codecCloses, nOps, closeCalls, recvFailed, serverVars>>

(* --------------------------- default server ----------------------------- *)

\* DefaultServer == nil
NilServer == 0

\* the option lists a caller passes (opt ...Option)
OptLists == {<<>>, <<"Name">>, <<"Address", "Name">>}

\* newRpcServer(opt...): a new server with the options passed in
newRpcServer(opts) ==
    [applied |-> opts]

\* DefaultServer.Init(opt...): applies the options to the server
rpcServerInit(s, opts) ==
    [s EXCEPT !.applied = @ \o opts]

\* Constructs without the nil check: Init builds a server every time
Constructs_Always == TRUE

\* Init: if DefaultServer == nil
Constructs == defaultServer = NilServer

\* Init: ... DefaultServer = newRpcServer(opt...)
ServersAfterNew(opts) ==
    IF Constructs THEN Append(servers, newRpcServer(opts)) ELSE servers

DefaultAfterNew(opts) ==
    IF Constructs THEN Len(servers) + 1 ELSE defaultServer

\* the options applied to server s since it had `before` applied
Suffix(s, before) ==
    SubSeq(s.applied, Len(before) + 1, Len(s.applied))

\* Run is between its call and its return (it blocks the goroutine that makes
\* the package-level calls)
Running == runPc \notin {"idle", "done", "panic"}

\* func Init(opt ...Option)
PkgInit(opts) ==
    /\ ~Running
    /\ nCalls < MaxCalls
    /\ nCalls' = nCalls + 1
    /\ LET built == ServersAfterNew(opts)
           d == DefaultAfterNew(opts)
           done == [built EXCEPT ![d] = rpcServerInit(@, opts)]
           before == IF Constructs THEN <<>> ELSE servers[defaultServer].applied
       IN /\ servers' = done
          /\ defaultServer' = d
          /\ initLog' = Append(initLog, [found |-> defaultServer, left |-> d,
                                         opts |-> opts,
                                         built |-> Len(done) - Len(servers),
                                         applied |-> Suffix(done[d], before)])
    /\ UNCHANGED <<runVars, streamVars>>

\* DefaultServer is an exported variable: a client sets it to nil
ClearDefault ==
    /\ ~Running
    /\ nCalls < MaxCalls
    /\ nCalls' = nCalls + 1
    /\ defaultServer # NilServer
    /\ defaultServer' = NilServer
    /\ UNCHANGED <<servers, initLog, runVars, streamVars>>

(* --------------------------------- Run ---------------------------------- *)

\* what DefaultServer.Start, Register, Deregister, Stop can return
LifecycleErrors(call) == {Nil, "Err" \o call}

\* the servers started after call returned e on server d
StartedAfter(call, e, d) ==
    IF e # Nil THEN started
    ELSE IF call = "Start" THEN started \cup {d}
    ELSE IF call = "Stop" THEN started \ {d}
    ELSE started

\* the servers registered after call returned e on server d
RegisteredAfter(call, e, d) ==
    IF e # Nil THEN registered
    ELSE IF call = "Register" THEN registered \cup {d}
    ELSE IF call = "Deregister" THEN registered \ {d}
    ELSE registered

\* ReturnsAfter that goes on to wait for the signal when Register has failed
ReturnsAfter_IgnoresRegister(call, e) ==
    call = "Stop" \/ (e # Nil /\ call # "Register")

\* Run: if err := ...; err != nil { return err } after Start, Register and
\* Deregister; return Stop() returns either way
ReturnsAfter(call, e) ==
    call = "Stop" \/ e # Nil

\* FollowedBy without the wait for a signal: Deregister follows Register
FollowedBy_NoWait(call) ==
    IF call = "Start" THEN "Register"
    ELSE IF call = "Register" THEN "Deregister"
    ELSE IF call = "Wait" THEN "Deregister"
    ELSE "Stop"

\* Run: the statement that follows call when Run goes on
FollowedBy(call) ==
    IF call = "Start" THEN "Register"
    ELSE IF call = "Register" THEN "Wait"
    ELSE IF call = "Wait" THEN "Deregister"
    ELSE "Stop"

\* func Run() error is called and enters Start()
RunCall ==
    /\ ~Running
    /\ nCalls < MaxCalls
    /\ nCalls' = nCalls + 1
    /\ runPc' = "Start"
    /\ runRet' = Nil
    /\ lifecycle' = <<>>
    /\ UNCHANGED <<servers, defaultServer, initLog, started, registered, streamVars>>

\* one call of Run on DefaultServer returns e: Start(), DefaultServer.Register(),
\* DefaultServer.Deregister() or Stop(); on a nil DefaultServer the call panics
RunStep(call) ==
    /\ runPc = call
    /\ IF defaultServer = NilServer
       THEN /\ runPc' = "panic"
            /\ UNCHANGED <<runRet, lifecycle, started, registered>>
       ELSE \E e \in LifecycleErrors(call) :
            /\ lifecycle' = Append(lifecycle, [call |-> call, on |-> defaultServer, err |-> e])
            /\ started' = StartedAfter(call, e, defaultServer)
            /\ registered' = RegisteredAfter(call, e, defaultServer)
            /\ IF ReturnsAfter(call, e)
               THEN runPc' = "done" /\ runRet' = e
               ELSE runPc' = FollowedBy(call) /\ UNCHANGED runRet
    /\ UNCHANGED <<servers, defaultServer, initLog, nCalls, streamVars>>

RunStart == RunStep("Start")

RunRegister == RunStep("Register")

\* signal.Notify(ch, ...); <-ch: a termination signal arrives
RunSignal ==
    /\ runPc = "Wait"
    /\ lifecycle' = Append(lifecycle, [call |-> "Signal", on |-> defaultServer, err |-> Nil])
    /\ runPc' = FollowedBy("Wait")
    /\ UNCHANGED <<servers, defaultServer, initLog, nCalls, runRet, started,
                   registered, streamVars>>

RunDeregister == RunStep("Deregister")

RunStop == RunStep("Stop")

(* ---------------------------- specification ----------------------------- *)

\* a stream as the server builds it: &rpcStream{context, codec, request}
InitStream ==
    /\ seq = 0
    /\ closed = FALSE
    /\ err = Nil
    /\ request \in [service : Services, method : Methods]
    /\ context = TheContext
    /\ writer = {}
    /\ readers = {}
    /\ pc = [p \in Procs |-> "idle"]
    /\ lseq = [p \in Procs |-> 0]
    /\ lerr = [p \in Procs |-> Nil]
    /\ calls = [p \in Procs |-> <<>>]
    /\ ret = [p \in Procs |-> [op |-> "none", err |-> Nil, val |-> {}]]
    /\ after = [p \in Procs |-> FALSE]
    /\ pos = 1
    /\ phase = "hdr"
    /\ written = <<>>
    /\ codecCloses = 0
    /\ nOps = 0
    /\ closeCalls = 0
    /\ recvFailed = FALSE

\* DefaultServer Server = newRpcServer()
InitServer ==
    /\ servers = <<newRpcServer(<<>>)>>
    /\ defaultServer = 1
    /\ initLog = <<>>
    /\ nCalls = 0
    /\ runPc = "idle"
    /\ runRet = Nil
    /\ lifecycle = <<>>
    /\ started = {}
    /\ registered = {}

Init == InitStream /\ InitServer

Next ==
    \E p \in Procs :
        \/ Context(p)
        \/ Request(p)
        \/ SendCall(p)
        \/ SendAcquire(p)
        \/ SendAssign(p)
        \/ SendWriteReturn(p)
        \/ RecvCall(p)
        \/ RecvAcquire(p)
        \/ RecvHeaderReturn(p)
        \/ RecvDiscardReturn(p)
        \/ RecvBodyReturn(p)
        \/ ErrorCall(p)
        \/ ErrorAcquire(p)
        \/ ErrorReturn(p)
        \/ CloseCall(p)
        \/ CloseAcquire(p)
        \/ CloseCodecReturn(p)

Spec == Init /\ [][Next]_vars

\* a step of an operation that has been called: a lock is granted, a codec
\* call returns, the operation returns
Progress ==
    \E p \in Procs :
        \/ SendAcquire(p)
        \/ SendAssign(p)
        \/ SendWriteReturn(p)
        \/ RecvAcquire(p)
        \/ RecvHeaderReturn(p)
        \/ RecvDiscardReturn(p)
        \/ RecvBodyReturn(p)
        \/ ErrorAcquire(p)
        \/ ErrorReturn(p)
        \/ CloseAcquire(p)
        \/ CloseCodecReturn(p)

\* the stream with goroutines that run when they can, a mutex that is granted
\* when it is free, and codec calls that return
SpecFair == Spec /\ WF_vars(Progress)

NextServer ==
    \/ \E opts \in OptLists : PkgInit(opts)
    \/ ClearDefault
    \/ RunCall
    \/ RunStart
    \/ RunRegister
    \/ RunSignal
    \/ RunDeregister
    \/ RunStop

SpecServer == Init /\ [][NextServer]_vars

(* ------------------------------- claims --------------------------------- *)

\* caller p's last operation was op and has returned
Done(p, op) == pc[p] = "idle" /\ ret[p].op = op

\* the callers that hold the exclusive lock, by where they are
InCritical ==
    {p \in Procs : pc[p] \in {"SendAssign", "SendWrite", "RecvHeader",
                              "RecvDiscard", "RecvBody", "CloseCodec"}}

\* the callers blocked in r.Lock()
AtLock == {p \in Procs : pc[p] \in {"SendLock", "RecvLock", "CloseLock"}}

\* the responses whose write succeeded, in the order they were written
Succeeded == SelectSeq(written, LAMBDA w : w.err = Nil)

\* C1, as claimed: the Sends that succeed carry exactly 0..N-1, in the order
\* the lock serialized them.
C1_SucceededGapless ==
    \A i \in 1..Len(Succeeded) : Succeeded[i].hdr.Seq = i - 1

\* C1, amended: all Sends, successful or failed, carry exactly 0..N-1 in the
\* order the lock serialized them (so the numbers of the successful ones are
\* strictly increasing and never repeated, with a gap at each failed Send).
C1_AllSendsGapless ==
    /\ \A i \in 1..Len(written) : written[i].hdr.Seq = i - 1
    /\ \A i, j \in 1..Len(Succeeded) : i < j => Succeeded[i].hdr.Seq < Succeeded[j].hdr.Seq

\* C1 witness: a failed Send followed by a successful one, a third caller's
\* Send waiting for the lock.
C1_Witness ==
    /\ Len(written) = 2
    /\ written[1].err # Nil
    /\ written[2].err = Nil
    /\ \E p \in Procs : pc[p] = "SendLock"

\* the names a response header carries
HeaderNames(h) == {h.ServiceMethod}

\* C2, as claimed: every envelope carries the request's service name, its
\* method name and the counter's value on entry to the Send.
C2_EnvelopeHasService ==
    \A i \in 1..Len(written) :
        /\ request.service \in HeaderNames(written[i].hdr)
        /\ request.method \in HeaderNames(written[i].hdr)
        /\ written[i].hdr.Seq = i - 1

\* C2, amended: every envelope is {ServiceMethod: the request's Method(),
\* Seq: the counter on entry}, written with more = false; the request's
\* Service() is not in it; the counter is the number of Sends that have
\* taken a number.
C2_Envelope ==
    /\ \A i \in 1..Len(written) :
        /\ written[i].hdr = [ServiceMethod |-> request.method, Seq |-> i - 1]
        /\ written[i].more = FALSE
    /\ \A p \in Procs : pc[p] = "SendWrite" => Response(p).Seq = seq - 1
    /\ seq = Len(written) + Cardinality({p \in Procs : pc[p] = "SendWrite"})

\* C2 witness: the first Send on a stream for {Greeter, Hello} has written
\* {ServiceMethod: Hello, Seq: 0} and left the counter at 1.
C2_Witness ==
    /\ request = [service |-> "Greeter", method |-> "Hello"]
    /\ written = <<[hdr |-> [ServiceMethod |-> "Hello", Seq |-> 0], more |-> FALSE, err |-> Nil]>>
    /\ seq = 1
    /\ \E p \in Procs : Done(p, "Send")

\* C3: a Recv whose ReadRequestHeader failed returns exactly the header
\* error, has called ReadRequestBody(nil) exactly once, and has never read a
\* body into the caller's message.
C3_HeaderFailure ==
    \A p \in Procs :
        (Done(p, "Recv") /\ calls[p][1].err # Nil) =>
            /\ ret[p].err = calls[p][1].err
            /\ Len(calls[p]) = 2
            /\ calls[p][2].fn = "ReadRequestBody"
            /\ calls[p][2].target = "nil"
            /\ \A i \in DOMAIN calls[p] : calls[p][i].target # "msg"

\* C3 witness: ReadRequestHeader returned EOF, Recv returned EOF after one
\* discard.
C3_Witness ==
    \E p \in Procs :
        /\ Done(p, "Recv")
        /\ calls[p][1].err = "EOF"
        /\ ret[p].err = "EOF"
        /\ Len(calls[p]) = 2

\* the Recv calls in progress or returned, by caller
RecvCalls(p) ==
    IF ret[p].op = "Recv" THEN calls[p] ELSE <<>>

\* C4: every Recv's header read starts at a frame boundary (also the one
\* after a Recv that failed on its header), and a body delivered to the
\* caller is the body of the frame whose header that Recv read.
C4_FrameBoundary ==
    /\ InCritical = {} => phase = "hdr"
    /\ \A p \in Procs :
        LET c == RecvCalls(p) IN
        /\ Len(c) >= 1 => (c[1].unit = NoUnit \/ c[1].unit[2] = "hdr")
        /\ (Len(c) = 2 /\ c[2].target = "msg" /\ c[2].err = Nil) =>
               c[2].unit = Unit(c[1].unit[1], "body")

\* C4 witness: one caller's Recv failed on the header of frame 1, another
\* caller's Recv then delivered frame 2.
C4_Witness ==
    \E p, q \in Procs :
        /\ Done(p, "Recv")
        /\ calls[p][1].unit = Unit(1, "hdr")
        /\ calls[p][1].err = "ErrHeader"
        /\ Done(q, "Recv")
        /\ Len(calls[q]) = 2
        /\ calls[q][1].unit = Unit(2, "hdr")
        /\ calls[q][2] = Call("ReadRequestBody", "msg", Unit(2, "body"), Nil)

\* C5: once a Close has been entered the closed flag is true and stays true,
\* whatever codec.Close returned; every Close call invokes codec.Close
\* exactly once, so k Close calls invoke it k times.
C5_Close ==
    /\ codecCloses > 0 => closed
    /\ codecCloses = closeCalls - Cardinality({p \in Procs : pc[p] = "CloseLock"})
    /\ \A p \in Procs :
        Done(p, "Close") =>
            /\ closed
            /\ Len(calls[p]) = 1
            /\ calls[p][1].fn = "Close"

\* C5 witness: two Close calls have returned, the first one with the codec's
\* error, and the codec was closed twice.
C5_Witness ==
    /\ closeCalls = 2
    /\ codecCloses = 2
    /\ closed
    /\ \E p, q \in Procs :
        /\ p # q
        /\ Done(p, "Close") /\ ret[p].err = "ErrClose"
        /\ Done(q, "Close") /\ ret[q].err = Nil

\* C6, as claimed: an Error() called after a Recv has returned an error
\* returns a non-nil error.
C6_LastErrorKept ==
    \A p \in Procs :
        (Done(p, "Error") /\ after[p]) => ret[p].err # Nil

\* the operations that call the codec
CodecOps == {"Send", "Recv", "Close"}

\* C7, as claimed: every error a codec call returned is the error the
\* operation returned.
C7_EveryErrorReturned ==
    \A p \in Procs :
        (pc[p] = "idle" /\ ret[p].op \in CodecOps) =>
            \A i \in DOMAIN calls[p] :
                calls[p][i].err # Nil => ret[p].err = calls[p][i].err

\* C7, amended: an operation returns nil only if every codec call it made
\* succeeded, and it returns the error of every failed codec call except the
\* discarding ReadRequestBody(nil) after a failed header read, whose error is
\* dropped.
C7_ErrorsReturned ==
    \A p \in Procs :
        (pc[p] = "idle" /\ ret[p].op \in CodecOps) =>
            /\ Len(calls[p]) >= 1
            /\ ret[p].err = Nil => \A i \in DOMAIN calls[p] : calls[p][i].err = Nil
            /\ \A i \in DOMAIN calls[p] :
                (calls[p][i].err # Nil /\ calls[p][i].target # "nil") =>
                    ret[p].err = calls[p][i].err

\* C7 witness: a Recv returned the header error while the discard's own
\* error was dropped; a Send returned the write error.
C7_Witness ==
    \E p, q \in Procs :
        /\ Done(p, "Recv")
        /\ Len(calls[p]) = 2
        /\ calls[p][1].err = "ErrHeader"
        /\ calls[p][2].err = "ErrBody"
        /\ ret[p].err = "ErrHeader"
        /\ Done(q, "Send")
        /\ ret[q].err = "ErrWrite"

\* C8: at most one of Send, Recv and Close is past r.Lock() at any time, so
\* at most one is inside a codec call and a Send takes no sequence number
\* while a Recv is blocked in the codec.
C8_Exclusive ==
    /\ Cardinality(InCritical) <= 1
    /\ writer = InCritical
    /\ \A p \in Procs :
        pc[p] \in {"RecvHeader", "RecvDiscard", "RecvBody"} =>
            \A q \in Procs \ {p} : pc[q] \notin {"SendAssign", "SendWrite", "CloseCodec"}

\* C8 witness: a Recv is blocked in ReadRequestHeader and a Send that started
\* meanwhile waits in r.Lock(), having taken no sequence number.
C8_Witness ==
    \E p, q \in Procs :
        /\ pc[p] = "RecvHeader"
        /\ pc[q] = "SendLock"
        /\ seq = 0

\* C9, as claimed: an Error() in progress never makes a Send, Recv or Close
\* wait: a caller in r.Lock() that no Send, Recv or Close keeps out can go on.
C9_ErrorNeverBlocks ==
    (AtLock # {} /\ writer = {}) => CanLock

\* C9, amended: Error() reads r.err under the read side of the same RWMutex
\* whose write side Send, Recv and Close take: no Error() is in progress
\* while one of them holds the lock, and one of them waits for as long as an
\* Error() is in progress.
C9_SameMutex ==
    /\ readers = {p \in Procs : pc[p] = "ErrorRead"}
    /\ readers # {} => (writer = {} /\ InCritical = {} /\ ~CanLock)

\* C9 witness: an Error() is in progress and a Send waits for it in r.Lock().
C9_Witness ==
    \E p, q \in Procs :
        /\ pc[p] = "ErrorRead"
        /\ pc[q] = "SendLock"
        /\ writer = {}
        /\ ~CanLock

\* the servers built by package-level Init calls
BuiltByInit ==
    Len(SelectSeq(initLog, LAMBDA e : e.built = 1))

RunOrder == <<"Start", "Register", "Signal", "Deregister", "Stop">>

\* C11: Run calls Start, Register, waits for the signal, then calls
\* Deregister and Stop, in that order, each only after the one before it has
\* succeeded.
C11_RunOrder ==
    /\ Len(lifecycle) <= Len(RunOrder)
    /\ \A i \in DOMAIN lifecycle :
        /\ lifecycle[i].call = RunOrder[i]
        /\ i > 1 => lifecycle[i - 1].err = Nil

\* C11 witness: a Run that went through all of Start, Register, signal,
\* Deregister, Stop and returned.
C11_Witness ==
    /\ runPc = "done"
    /\ Len(lifecycle) = Len(RunOrder)
    /\ lifecycle[Len(lifecycle)].call = "Stop"

\* C12, as claimed: when Deregister fails after the signal, Stop is still
\* called before Run returns.
C12_StopAfterFailedDeregister ==
    (/\ runPc = "done"
     /\ \E i \in DOMAIN lifecycle :
            lifecycle[i].call = "Deregister" /\ lifecycle[i].err # Nil)
        => \E j \in DOMAIN lifecycle : lifecycle[j].call = "Stop"

\* caller p takes a step of its own
Steps(p) == pc'[p] # pc[p]

\* the last codec call of caller p's operation, after the step
LastCall(p) == calls'[p][Len(calls'[p])]

\* C13: the sequence counter starts at 0 and never decreases or is reset,
\* before or after Close: the only step that changes it is Send's seq++,
\* which adds exactly 1, once per Send.
C13_SeqOnlySend ==
    /\ seq = 0
    /\ [][/\ seq' = seq \/ seq' = seq + 1
          /\ seq' # seq => \E p \in Procs : pc[p] = "SendAssign" /\ pc'[p] = "SendWrite"
          /\ \A p \in Procs : (pc[p] = "SendAssign" /\ Steps(p)) => seq' = seq + 1]_vars

\* C13 witness: two Sends have taken their numbers and the stream is closed.
C13_Witness ==
    /\ seq = 2
    /\ closed
    /\ \E p \in Procs : Done(p, "Close")

C15_BodyPath ==
    \A p \in Procs :
        /\ pc[p] = "RecvBody" => (Len(calls[p]) = 1 /\ calls[p][1].err = Nil)
        /\ (Done(p, "Recv") /\ calls[p][1].err = Nil) =>
            /\ Len(calls[p]) = 2
            /\ calls[p][2].fn = "ReadRequestBody"
            /\ calls[p][2].target = "msg"
            /\ ret[p].err = calls[p][2].err

\* C15 witness: the header read succeeded, the body read failed and Recv
\* returned the body error after two codec calls.
C15_Witness ==
    \E p \in Procs :
        /\ Done(p, "Recv")
        /\ Len(calls[p]) = 2
        /\ calls[p][1].err = Nil
        /\ calls[p][2].err = "ErrBody"
        /\ ret[p].err = "ErrBody"

\* C16: on a closed stream a Send that holds the lock still takes a sequence
\* number and enters WriteResponse, a Recv that gets the lock still enters
\* ReadRequestHeader, and both return what the codec returned.
C16_NoClosedGuard ==
    [][closed =>
        \A p \in Procs :
          /\ (pc[p] = "SendAssign" /\ Steps(p)) => (pc'[p] = "SendWrite" /\ seq' = seq + 1)
          /\ (pc[p] = "SendWrite" /\ Steps(p)) =>
                 (pc'[p] = "idle" /\ Len(calls'[p]) = 1 /\ ret'[p].err = LastCall(p).err)
          /\ (pc[p] = "RecvLock" /\ Steps(p)) => pc'[p] = "RecvHeader"
          /\ (pc[p] = "RecvHeader" /\ Steps(p)) => pc'[p] \in {"RecvDiscard", "RecvBody"}
          /\ (pc[p] = "RecvBody" /\ Steps(p)) =>
                 (pc'[p] = "idle" /\ ret'[p].err = LastCall(p).err)]_vars

\* C16 witness: a Close has returned and a Send that got the lock after it is
\* inside WriteResponse with sequence number 0.
C16_Witness ==
    \E p, q \in Procs :
        /\ Done(q, "Close")
        /\ closed
        /\ pc[p] = "SendWrite"
        /\ lseq[p] = 0
        /\ seq = 1

\* C17: the counter is the number of Sends that have taken a number, whether
\* their write succeeded, failed or is still going on, and successive Sends
\* write consecutive numbers.
C17_CountsEverySend ==
    /\ seq = Len(written) + Cardinality({p \in Procs : pc[p] = "SendWrite"})
    /\ \A i \in 1..(Len(written) - 1) : written[i + 1].hdr.Seq = written[i].hdr.Seq + 1

\* C17 witness: two Sends have failed and the counter is 2.
C17_Witness ==
    /\ Len(written) = 2
    /\ written[1].err # Nil
    /\ written[2].err # Nil
    /\ seq = 2

\* C18: when Start fails Run returns its error after that one call; when
\* Register fails Run returns its error at once, with no wait, Deregister or
\* Stop, and the default server stays started.
C18_EarlyReturn ==
    /\ runPc \in {"Wait", "Deregister", "Stop"} =>
           (Len(lifecycle) >= 2 /\ lifecycle[1].err = Nil /\ lifecycle[2].err = Nil)
    /\ (runPc = "done" /\ lifecycle[1].err # Nil) =>
           (Len(lifecycle) = 1 /\ runRet = lifecycle[1].err)
    /\ (runPc = "done" /\ Len(lifecycle) >= 2 /\ lifecycle[2].err # Nil) =>
           (Len(lifecycle) = 2 /\ runRet = lifecycle[2].err /\ lifecycle[1].on \in started)

\* C18 witness: Start succeeded, Register failed, Run has returned the
\* Register error and the default server is started.
C18_Witness ==
    /\ runPc = "done"
    /\ Len(lifecycle) = 2
    /\ lifecycle[2] = [call |-> "Register", on |-> defaultServer, err |-> "ErrRegister"]
    /\ runRet = "ErrRegister"
    /\ defaultServer \in started

\* no operation is in progress
AllIdle == \A p \in Procs : pc[p] = "idle"

\* C19: every return path releases the lock, so the lock is free whenever no
\* operation is in progress and is held only by operations in progress; and
\* every operation that has been called returns.
C19_LockReleased ==
    /\ [](AllIdle => (writer = {} /\ readers = {}))
    /\ [](writer \cup readers \subseteq {p \in Procs : pc[p] # "idle"})
    /\ \A p \in Procs : (pc[p] # "idle") ~> (pc[p] = "idle")

\* C19 witness: a Recv has returned on its header-error path, nothing is in
\* progress and the lock is free.
C19_Witness ==
    /\ AllIdle
    /\ writer = {}
    /\ readers = {}
    /\ \E p \in Procs : Done(p, "Recv") /\ ret[p].err = "ErrHeader"

====
